---- MODULE Spec2Model ----
(***************************************************************************)
(* Model of the option-chain polling worker of app.py (data_worker), the   *)
(* analytics it calls (fetch_option_chain_data, calculate_max_pain,        *)
(* calculate_signals), the store writers (save_to_db, save_signals_to_db,  *)
(* save_market_price, cleanup_old_data) and the read handler               *)
(* get_option_chain that serves market_data concurrently.                  *)
(*                                                                         *)
(* Conventions.                                                            *)
(*  - Time is counted in whole days; datetime.now() and get_ist_now()      *)
(*    differ by a constant offset and are one clock, now.                  *)
(*  - pcr is kept in hundredths (round(x, 2) * 100), the trend score in    *)
(*    halves (score * 2), so that all arithmetic is on integers.           *)
(*  - A key that a Python dict does not hold yet is modelled by its        *)
(*    .get default; written[sym][field] = 0 says that the worker has not   *)
(*    assigned the key so far.                                             *)
(***************************************************************************)
EXTENDS Integers, Sequences, FiniteSets, TLC

\* ------------------------------------------------------------------ bounds
\* Number of polling cycles (entries into the try block) that are explored
\* within one day.
MaxCycles == 2
\* Number of times, in one run, that the environment departs from its
\* regular answer (quotes for all three symbols, a chain of 10 strikes that
\* yields signals, a store statement that succeeds).
MaxDeviations == 1
\* Number of polling cycles explored while the handler reads concurrently.
MaxServeCycles == 1
\* Number of polling cycles explored while the clock moves.
MaxClockCycles == 1
\* Last day the clock reaches in the runs that follow one cycle's timestamp.
MaxClockTime == 1
\* Last day the clock reaches in the runs that follow the cleanup.
MaxTime == 9
\* Longest chain handed to calculate_max_pain, and the largest open interest
\* of a leg in it.
MaxPainLen == 3
MaxPainOi == 1
\* Largest near-ATM sum of OI change, and largest trend score (in halves),
\* of the chains handed to calculate_signals.
MaxFlow == 3
MaxTrend == 6
\* Number of distinct last prices a stored leg of the OI history can have.
MaxLtp == 2
\* Number of posts /webhook receives.
MaxPosts == 6
\* Last day on which get_next_tuesday is called, counted from a Monday.
MaxExpiryDay == 13
\* Number of raw leg rows in an answer given to fetch_option_chain_data.
MaxLegs == 3
\* Largest size of the price change and of the OI change of a classified leg.
MaxChange == 1

\* ------------------------------------------------------ program constants
\* (now - last_cleanup).total_seconds() > 86400, in days.
CleanupPeriod == 1
\* timedelta(days=7) of cleanup_old_data.
RetentionDays == 7
\* len(chain) < 10 guard of calculate_signals.
MinStrikes == 10
\* JSON null / Python None where a number is expected.
None == -999999

Symbols == <<"NIFTY", "BANKNIFTY", "FINNIFTY">>
SymbolSet == {"NIFTY", "BANKNIFTY", "FINNIFTY"}

\* indices: provider symbol -> tracked symbol ("" when name not in indices).
indices(name) ==
    CASE name = "NSE:NIFTY50-INDEX"   -> "NIFTY"
      [] name = "NSE:NIFTYBANK-INDEX" -> "BANKNIFTY"
      [] name = "NSE:NIFTYFIN-INDEX"  -> "FINNIFTY"
      [] name = "NSE:FINNIFTY-INDEX"  -> "FINNIFTY"
      [] OTHER -> ""

\* Strike interval passed to round(spot / interval) * interval and to
\* fetch_option_chain_data for each of the three blocks of data_worker.
Interval(sym) == IF sym = "BANKNIFTY" THEN 100 ELSE 50

Abs(x) == IF x < 0 THEN -x ELSE x

\* Python round(a / b) for a >= 0, b > 0: nearest integer, ties to even.
RoundDiv(a, b) ==
    LET q == a \div b
        r == a % b
    IN  IF 2 * r < b THEN q
        ELSE IF 2 * r > b THEN q + 1
        ELSE IF q % 2 = 0 THEN q ELSE q + 1

\* atm_strike = round(spot / interval) * interval
AtmStrike(spot, interval) == RoundDiv(spot, interval) * interval

\* ------------------------------------------------------------- get_trend
\* get_trend raises TypeError when a comparison with None is evaluated; the
\* and-chains short-circuit on price_chg, so oi_chg is compared only when
\* price_chg is non-zero.
get_trend_raises(price_chg, oi_chg) ==
    \/ price_chg = None
    \/ (price_chg # 0 /\ oi_chg = None)

get_trend(price_chg, oi_chg) ==
    IF price_chg > 0 /\ oi_chg > 0 THEN "Long Buildup"
    ELSE IF price_chg < 0 /\ oi_chg > 0 THEN "Short Buildup"
    ELSE IF price_chg > 0 /\ oi_chg < 0 THEN "Short Covering"
    ELSE IF price_chg < 0 /\ oi_chg < 0 THEN "Long Unwinding"
    ELSE "Neutral"

\* ----------------------------------------------- fetch_option_chain_data
\* A raw leg row of the provider: the keys the worker reads.
Leg(k, t, ltp, oi, ltpch, oich) ==
    [strike_price |-> k, option_type |-> t, ltp |-> ltp, oi |-> oi,
     ltpch |-> ltpch, oich |-> oich]

\* strike_map[strike] = {'strike': strike, 'is_atm': False}; the side keys
\* carry the defaults that every reader uses in .get.
NewRow(k) ==
    [strike |-> k, is_atm |-> FALSE,
     ce_ltp |-> 0, ce_oi |-> 0, ce_ch |-> 0, ce_oich |-> 0, ce_trend |-> "Neutral",
     pe_ltp |-> 0, pe_oi |-> 0, pe_ch |-> 0, pe_oich |-> 0, pe_trend |-> "Neutral"]

\* Trend of one leg: Neutral unless atm_strike and interval are truthy and
\* the strike is within 20 intervals of ATM.
InTrendWindow_strict(item, atm_strike, interval) ==
    /\ atm_strike \notin {0, None}
    /\ interval \notin {0, None}
    /\ Abs(item.strike_price - atm_strike) < 20 * interval

InTrendWindow(item, atm_strike, interval) ==
    /\ atm_strike \notin {0, None}
    /\ interval \notin {0, None}
    /\ Abs(item.strike_price - atm_strike) <= 20 * interval

LegTrend(item, atm_strike, interval) ==
    IF InTrendWindow(item, atm_strike, interval)
    THEN get_trend(item.ltpch, item.oich)
    ELSE "Neutral"

LegRaises(item, atm_strike, interval) ==
    /\ InTrendWindow(item, atm_strike, interval)
    /\ get_trend_raises(item.ltpch, item.oich)

\* The body of the for loop over raw_chain for one item, applied to its row.
MergeLeg(row, item, atm_strike, interval) ==
    IF item.option_type = "CE"
    THEN [row EXCEPT !.ce_ltp = item.ltp, !.ce_oi = item.oi, !.ce_ch = item.ltpch,
                     !.ce_oich = item.oich,
                     !.ce_trend = LegTrend(item, atm_strike, interval)]
    ELSE [row EXCEPT !.pe_ltp = item.ltp, !.pe_oi = item.oi, !.pe_ch = item.ltpch,
                     !.pe_oich = item.oich,
                     !.pe_trend = LegTrend(item, atm_strike, interval)]

\* Position of strike k in the insertion-ordered strike_map, 0 if absent.
RECURSIVE IndexOfStrike(_, _, _)
IndexOfStrike(rows, k, i) ==
    IF i > Len(rows) THEN 0
    ELSE IF rows[i].strike = k THEN i
    ELSE IndexOfStrike(rows, k, i + 1)

\* strike_map after the items i.. of raw_chain; raised says that the loop
\* was left by an exception.
RECURSIVE BuildStrikeMap(_, _, _, _, _)
BuildStrikeMap(raw_chain, i, rows, atm_strike, interval) ==
    IF i > Len(raw_chain) THEN [raised |-> FALSE, rows |-> rows]
    ELSE
      LET item == raw_chain[i]
          at   == IndexOfStrike(rows, item.strike_price, 1)
          base == IF at = 0 THEN Append(rows, NewRow(item.strike_price)) ELSE rows
          j    == IF at = 0 THEN Len(base) ELSE at
      IN  IF LegRaises(item, atm_strike, interval)
          THEN [raised |-> TRUE, rows |-> base]
          ELSE BuildStrikeMap(raw_chain, i + 1,
                 [base EXCEPT ![j] = MergeLeg(base[j], item, atm_strike, interval)],
                 atm_strike, interval)

\* chain_list.sort(key=lambda x: x['strike']): a stable insertion sort.
RECURSIVE InsertByStrike(_, _)
InsertByStrike(sorted, row) ==
    IF sorted = << >> THEN <<row>>
    ELSE IF sorted[Len(sorted)].strike <= row.strike THEN Append(sorted, row)
    ELSE Append(InsertByStrike(SubSeq(sorted, 1, Len(sorted) - 1), row),
                sorted[Len(sorted)])

SortByStrike_none(rows, i, acc) == rows

RECURSIVE SortByStrike(_, _, _)
SortByStrike(rows, i, acc) ==
    IF i > Len(rows) THEN acc
    ELSE SortByStrike(rows, i + 1, InsertByStrike(acc, rows[i]))

\* res is the provider's answer: the call raised, the answer has no
\* data.optionsChain, or it carries the raw legs.  chain_list stays [] when
\* the loop raises, because it is assigned after the loop.
fetch_option_chain_data(res, atm_strike, interval) ==
    IF res.kind # "chain" THEN << >>
    ELSE LET m == BuildStrikeMap(res.legs, 1, << >>, atm_strike, interval)
         IN  IF m.raised THEN << >> ELSE SortByStrike(m.rows, 1, << >>)

\* ----------------------------------------------------- PCR and sentiment
RECURSIVE SumCeOi(_, _)
SumCeOi(chain, i) == IF i > Len(chain) THEN 0 ELSE chain[i].ce_oi + SumCeOi(chain, i + 1)

RECURSIVE SumPeOi(_, _)
SumPeOi(chain, i) == IF i > Len(chain) THEN 0 ELSE chain[i].pe_oi + SumPeOi(chain, i + 1)

\* sum(row.get('ce_oi', 0) ...) raises TypeError on a None among the values.
PcrRaises(chain) ==
    \E i \in 1..Len(chain) : chain[i].ce_oi = None \/ chain[i].pe_oi = None

\* pcr = round(total_pe_oi / total_ce_oi, 2) if total_ce_oi > 0 else 0,
\* in hundredths.
Pcr(chain) ==
    LET total_ce_oi == SumCeOi(chain, 1)
        total_pe_oi == SumPeOi(chain, 1)
    IN  IF total_ce_oi > 0 THEN RoundDiv(100 * total_pe_oi, total_ce_oi) ELSE 0

\* pcr >= 1 Bullish, pcr <= 0.8 Bearish, else Sideways.
Sentiment(pcr) ==
    IF pcr >= 100 THEN "Bullish"
    ELSE IF pcr <= 80 THEN "Bearish"
    ELSE "Sideways"

\* for row in chain_data: if row['strike'] == atm_strike: row['is_atm'] = True
MarkAtm(chain, atm_strike) ==
    [i \in 1..Len(chain) |->
        IF chain[i].strike = atm_strike THEN [chain[i] EXCEPT !.is_atm = TRUE]
        ELSE chain[i]]

\* ---------------------------------------------------- calculate_max_pain
RECURSIVE TotalPain(_, _, _)
TotalPain(chain, expiration_price, i) ==
    IF i > Len(chain) THEN 0
    ELSE LET row == chain[i]
             call_pain == IF expiration_price > row.strike
                          THEN (expiration_price - row.strike) * row.ce_oi ELSE 0
             put_pain  == IF expiration_price < row.strike
                          THEN (row.strike - expiration_price) * row.pe_oi ELSE 0
         IN  call_pain + put_pain + TotalPain(chain, expiration_price, i + 1)

\* The last strike of least pain instead of the first.
RECURSIVE MinPainFrom_last_tie(_, _, _)
MinPainFrom_last_tie(chain, i, best) ==
    IF i > Len(chain) THEN best
    ELSE IF TotalPain(chain, chain[i].strike, 1) <= TotalPain(chain, chain[best].strike, 1)
         THEN MinPainFrom_last_tie(chain, i + 1, i)
         ELSE MinPainFrom_last_tie(chain, i + 1, best)

\* min(pains, key=pains.get): the first strike, in chain order, of least pain.
RECURSIVE MinPainFrom(_, _, _)
MinPainFrom(chain, i, best) ==
    IF i > Len(chain) THEN best
    ELSE IF TotalPain(chain, chain[i].strike, 1) < TotalPain(chain, chain[best].strike, 1)
         THEN MinPainFrom(chain, i + 1, i)
         ELSE MinPainFrom(chain, i + 1, best)

calculate_max_pain(chain) ==
    IF chain = << >> THEN 0 ELSE chain[MinPainFrom(chain, 2, 1)].strike

\* ----------------------------------------------------- calculate_signals
\* The same divisor for every symbol.
MP_DIV_same(symbol) == 50

\* MP_DIV = 100 if symbol == 'BANKNIFTY' else 50
MP_DIV(symbol) == IF symbol = "BANKNIFTY" THEN 100 ELSE 50

\* PCR_BULL = 1.1 and PCR_BEAR = 0.9, in hundredths.
PCR_BULL == 110
PCR_BEAR == 90

\* near_chain: abs(strike - atm_strike) <= atm_strike * 0.012
IsNear(row, atm_strike) == 1000 * Abs(row.strike - atm_strike) <= 12 * atm_strike

RECURSIVE NearChain(_, _, _)
NearChain(chain, atm_strike, i) ==
    IF i > Len(chain) THEN << >>
    ELSE IF IsNear(chain[i], atm_strike)
         THEN <<chain[i]>> \o NearChain(chain, atm_strike, i + 1)
         ELSE NearChain(chain, atm_strike, i + 1)

RECURSIVE SumCeOich(_, _)
SumCeOich(rows, i) == IF i > Len(rows) THEN 0 ELSE rows[i].ce_oich + SumCeOich(rows, i + 1)

RECURSIVE SumPeOich(_, _)
SumPeOich(rows, i) == IF i > Len(rows) THEN 0 ELSE rows[i].pe_oich + SumPeOich(rows, i + 1)

\* flow_status of the OI flow analysis; OI_AGGR_RATIO = 1.5.
FlowStatus(ce_chg_sum, pe_chg_sum) ==
    IF ce_chg_sum < 0 /\ pe_chg_sum > 0 THEN "Call Unwinding"
    ELSE IF pe_chg_sum < 0 /\ ce_chg_sum > 0 THEN "Put Unwinding"
    ELSE IF ce_chg_sum > 0 /\ pe_chg_sum > 0
         THEN IF 2 * pe_chg_sum > 3 * ce_chg_sum THEN "Strong Put Writing"
              ELSE IF 2 * ce_chg_sum > 3 * pe_chg_sum THEN "Strong Call Writing"
              ELSE "Balanced"
    ELSE "Balanced"

IsFlowBull(flow_status) == flow_status \in {"Call Unwinding", "Strong Put Writing"}
IsFlowBear(flow_status) == flow_status \in {"Put Unwinding", "Strong Call Writing"}

\* Contribution of one row to trend_score, in halves.
RowTrendScore(row) ==
    (CASE row.ce_trend = "Long Buildup"   -> 2
       [] row.ce_trend = "Short Buildup"  -> -2
       [] row.ce_trend = "Short Covering" -> 1
       [] row.ce_trend = "Long Unwinding" -> -1
       [] OTHER -> 0)
    +
    (CASE row.pe_trend = "Short Buildup"  -> 2
       [] row.pe_trend = "Long Buildup"   -> -2
       [] row.pe_trend = "Short Covering" -> -1
       [] row.pe_trend = "Long Unwinding" -> 1
       [] OTHER -> 0)

RECURSIVE TrendScore(_, _)
TrendScore(rows, i) ==
    IF i > Len(rows) THEN 0 ELSE RowTrendScore(rows[i]) + TrendScore(rows, i + 1)

\* trend_score >= 2.5 Bullish, <= -2.5 Bearish.
TrendStatus(trend_score) ==
    IF trend_score >= 5 THEN "Bullish"
    ELSE IF trend_score <= -5 THEN "Bearish"
    ELSE "Neutral"

Signal(type, strategy) == [type |-> type, strategy |-> strategy]

\* The guard without its check of the number of strikes.
SignalsGuard_no_len(chain, atm_strike) ==
    chain = << >> \/ atm_strike = 0

\* The guard: if not chain or not atm_strike, or len(chain) < 10.
SignalsGuard(chain, atm_strike) ==
    chain = << >> \/ atm_strike = 0 \/ Len(chain) < MinStrikes

\* The sums over near_chain raise TypeError on a None OI change.
SignalsRaise(chain, atm_strike) ==
    /\ ~SignalsGuard(chain, atm_strike)
    /\ \E i \in 1..Len(chain) :
          /\ IsNear(chain[i], atm_strike)
          /\ (chain[i].ce_oich = None \/ chain[i].pe_oich = None)

\* The unwinding variants weighted 5.
FlowScore_wide(flow_status) ==
    IF IsFlowBull(flow_status)
    THEN (IF flow_status = "Call Unwinding" THEN 5 ELSE 3)
    ELSE IF IsFlowBear(flow_status)
         THEN (IF flow_status = "Put Unwinding" THEN -5 ELSE -3)
         ELSE 0

FlowScore(flow_status) ==
    IF IsFlowBull(flow_status)
    THEN (IF flow_status = "Call Unwinding" THEN 4 ELSE 3)
    ELSE IF IsFlowBear(flow_status)
         THEN (IF flow_status = "Put Unwinding" THEN -4 ELSE -3)
         ELSE 0

FlowReason(flow_status) ==
    CASE flow_status = "Call Unwinding"      -> <<"Call Unwinding (Explosive)">>
      [] flow_status = "Strong Put Writing"  -> <<"Put Writing (Support)">>
      [] flow_status = "Put Unwinding"       -> <<"Put Unwinding (Crash)">>
      [] flow_status = "Strong Call Writing" -> <<"Call Writing (Resistance)">>
      [] OTHER -> << >>

TrendPoints(trend_status) ==
    IF trend_status = "Bullish" THEN 2 ELSE IF trend_status = "Bearish" THEN -2 ELSE 0

TrendReason(trend_status) ==
    IF trend_status = "Bullish" THEN <<"Bullish Structure">>
    ELSE IF trend_status = "Bearish" THEN <<"Bearish Structure">>
    ELSE << >>

PcrPoints_strict(pcr) == IF pcr > PCR_BULL THEN 2 ELSE IF pcr < PCR_BEAR THEN -2 ELSE 0

PcrPoints(pcr) == IF pcr >= PCR_BULL THEN 2 ELSE IF pcr <= PCR_BEAR THEN -2 ELSE 0

PcrReason(pcr) ==
    IF pcr >= PCR_BULL THEN <<"PCR Oversold/Bullish">>
    ELSE IF pcr <= PCR_BEAR THEN <<"PCR Overbought/Bearish">>
    ELSE << >>

MaxPainPoints(symbol, spot, max_pain) ==
    IF spot > max_pain + MP_DIV(symbol) THEN -1
    ELSE IF spot < max_pain - MP_DIV(symbol) THEN 1
    ELSE 0

TradeAction(score) ==
    IF score >= 5 THEN "STRONG BUY (CE)"
    ELSE IF score >= 2 THEN "BUY ON DIPS"
    ELSE IF score <= -5 THEN "STRONG SELL (PE)"
    ELSE IF score <= -2 THEN "SELL ON RISE"
    ELSE "WAIT / NEUTRAL"

TradeColor(score) ==
    IF score >= 5 THEN "emerald"
    ELSE IF score >= 2 THEN "teal"
    ELSE IF score <= -5 THEN "rose"
    ELSE IF score <= -2 THEN "orange"
    ELSE "slate"

FirstTwo(seq) == IF Len(seq) <= 2 THEN seq ELSE SubSeq(seq, 1, 2)

\* The signals list of calculate_signals past the guard (desc, a formatted
\* string of the same values, is left out).
SignalList(symbol, chain, spot, pcr, max_pain, atm_strike) ==
    LET near_chain   == NearChain(chain, atm_strike, 1)
        flow_status  == FlowStatus(SumCeOich(near_chain, 1), SumPeOich(near_chain, 1))
        trend_status == TrendStatus(TrendScore(near_chain, 1))
        s1 == IF pcr >= PCR_BULL THEN <<Signal("BULLISH", "PCR Sentiment")>>
              ELSE IF pcr <= PCR_BEAR THEN <<Signal("BEARISH", "PCR Sentiment")>>
              ELSE << >>
        s2 == IF spot < max_pain - MP_DIV(symbol) /\ pcr > 90
              THEN <<Signal("BULLISH", "Max Pain Reversion")>>
              ELSE IF spot > max_pain + MP_DIV(symbol) /\ pcr < 110
                   THEN <<Signal("BEARISH", "Max Pain Reversion")>>
                   ELSE << >>
        s3 == IF IsFlowBull(flow_status) THEN <<Signal("BULLISH", "Smart Money Flow")>>
              ELSE IF IsFlowBear(flow_status) THEN <<Signal("BEARISH", "Smart Money Flow")>>
              ELSE << >>
        s4 == IF trend_status = "Bullish" THEN <<Signal("BULLISH", "Trend Alignment")>>
              ELSE IF trend_status = "Bearish" THEN <<Signal("BEARISH", "Trend Alignment")>>
              ELSE << >>
    IN  s1 \o s2 \o s3 \o s4

\* signal_card of calculate_signals past the guard.
SignalCard(symbol, chain, spot, pcr, max_pain, atm_strike) ==
    LET near_chain   == NearChain(chain, atm_strike, 1)
        flow_status  == FlowStatus(SumCeOich(near_chain, 1), SumPeOich(near_chain, 1))
        trend_status == TrendStatus(TrendScore(near_chain, 1))
        score   == FlowScore(flow_status) + TrendPoints(trend_status)
                   + PcrPoints(pcr) + MaxPainPoints(symbol, spot, max_pain)
        reasons == FlowReason(flow_status) \o TrendReason(trend_status) \o PcrReason(pcr)
    IN  [symbol |-> symbol, score |-> score, action |-> TradeAction(score),
         color |-> TradeColor(score), reasons |-> FirstTwo(reasons),
         pcr |-> pcr, max_pain |-> max_pain, spot |-> spot]

\* calculate_signals returns (signals, signal_card); ([], {}) under the
\* guard.  The empty dict is the function with empty domain.
calculate_signals(symbol, chain, spot, pcr, max_pain, atm_strike) ==
    IF SignalsGuard(chain, atm_strike) THEN << << >>, << >> >>
    ELSE << SignalList(symbol, chain, spot, pcr, max_pain, atm_strike),
            SignalCard(symbol, chain, spot, pcr, max_pain, atm_strike) >>

\* ------------------------------------------------------- provider inputs
\* Strike around which the provider's sample chains of a symbol are centred.
Centre(sym) ==
    CASE sym = "NIFTY" -> 24800 [] sym = "BANKNIFTY" -> 51200 [] OTHER -> 23500

\* n strikes around centre, returned highest strike first, CE before PE.
RawLegs(centre, step, n, ce_oi, pe_oi, ce_ltpch, pe_ltpch, ce_oich, pe_oich) ==
    [j \in 1..(2 * n) |->
        LET i == n + 1 - ((j + 1) \div 2)
            k == centre + (i - (n \div 2) - 1) * step
        IN  IF j % 2 = 1 THEN Leg(k, "CE", 120, ce_oi, ce_ltpch, ce_oich)
                         ELSE Leg(k, "PE", 110, pe_oi, pe_ltpch, pe_oich)]

ActiveLegs(sym) == RawLegs(Centre(sym), Interval(sym), 10, 100, 130, 1, -1, -10, 20)
QuietLegs(sym)  == RawLegs(Centre(sym), Interval(sym), 10, 100, 100, 0, 0, 0, 0)
ShortLegs(sym)  == RawLegs(Centre(sym), Interval(sym), 2, 100, 130, 1, -1, -10, 20)

\* The regular answer of fyers.optionchain for a symbol: a chain of 10
\* strikes that yields signals.
RegularChainResponses(sym) == { [kind |-> "chain", legs |-> ActiveLegs(sym)] }

\* Its other answers: a chain that yields no signal, an exception, an answer
\* without data.optionsChain, a chain of 2 strikes, one with a null oi, one
\* with a null oich on a leg whose ltpch is 0.
OtherChainResponses(sym) ==
    { [kind |-> "chain", legs |-> QuietLegs(sym)],
      [kind |-> "raise", legs |-> << >>],
      [kind |-> "nochain", legs |-> << >>],
      [kind |-> "chain", legs |-> ShortLegs(sym)],
      [kind |-> "chain", legs |-> [ActiveLegs(sym) EXCEPT ![1].oi = None]],
      [kind |-> "chain", legs |-> [ActiveLegs(sym) EXCEPT ![1].ltpch = 0, ![1].oich = None]] }

\* One item of response['d']: has_n and has_lp say whether the keys 'n' and
\* 'v'/'lp' are there.
QuoteItem(has_n, n, has_lp, lp) == [has_n |-> has_n, n |-> n, has_lp |-> has_lp, lp |-> lp]

NiftyQuote == QuoteItem(TRUE, "NSE:NIFTY50-INDEX", TRUE, 24810)
BankQuote  == QuoteItem(TRUE, "NSE:NIFTYBANK-INDEX", TRUE, 51230)
FinQuote   == QuoteItem(TRUE, "NSE:NIFTYFIN-INDEX", TRUE, 23490)

\* The regular answer of fyers.quotes.
RegularQuoteResponses == { [kind |-> "d", d |-> <<NiftyQuote, BankQuote, FinQuote>>] }

\* Its other answers: an exception, an answer without 'd', and lists with
\* one item without 'lp', without 'n', or with a last price of 0.
OtherQuoteResponses ==
    { [kind |-> "raise", d |-> << >>],
      [kind |-> "no_d", d |-> << >>],
      [kind |-> "d", d |-> <<QuoteItem(TRUE, "NSE:NIFTY50-INDEX", FALSE, 0), BankQuote, FinQuote>>],
      [kind |-> "d", d |-> <<NiftyQuote, QuoteItem(FALSE, "", TRUE, 51230), FinQuote>>],
      [kind |-> "d", d |-> <<QuoteItem(TRUE, "NSE:NIFTY50-INDEX", TRUE, 0), BankQuote, FinQuote>>] }

\* What token.json can hold when load_token reads it.
TokenContents == {"absent", "corrupt", "not_object", "no_token", "no_client_id", "valid"}

\* load_token: the parsed JSON, or the default dict when the file is absent
\* or json.load raises.  A JSON document that is not an object is returned
\* as it is.
load_token(content) ==
    CASE content = "valid"        -> [is_dict |-> TRUE, has_client_id |-> TRUE, access_token |-> "tok"]
      [] content = "no_client_id" -> [is_dict |-> TRUE, has_client_id |-> FALSE, access_token |-> "tok"]
      [] content = "not_object"   -> [is_dict |-> FALSE, has_client_id |-> FALSE, access_token |-> ""]
      [] OTHER                    -> [is_dict |-> TRUE, has_client_id |-> TRUE, access_token |-> ""]

\* ------------------------------------------------------------------ state
VARIABLES
    pc,                \* position of data_worker
    now,               \* the wall clock, in days
    last_cleanup,      \* local of data_worker (None before it is assigned)
    cleanup_failed,    \* databases whose DELETE raised in the last cleanup
    error_count,       \* local of data_worker
    creds,             \* local of data_worker: what load_token returned
    cycle,             \* number of entries into the try block so far
    response,          \* local: answer of fyers.quotes
    idx,               \* local: position of the for loop over response['d']
    spot_prices,       \* local dict: symbol -> lp
    current_timestamp, \* local: the cycle's timestamp (None before the first)
    sym_i,             \* which of the three symbol blocks is executing
    chain_data,        \* local: the chain of the block that is executing
    market_data,       \* the global dict the handler serves
    written,           \* per symbol and key: the cycle that assigned it last
    store,             \* the three tables of each symbol's database
    notifications,     \* messages handed to send_fcm_alert, in order
    fetches,           \* calls of fetch_option_chain_data, in order
    served,            \* last answer of get_option_chain, with its written
    deviations,        \* departures of the environment from its regular answer so far
    run,               \* what this run explores: cycles, horizon, deviations, faults
    call,              \* a call of one of the functions outside the worker: its
                       \* name, its arguments and, once it returned, its result
    stocks,            \* the global dict of /webhook: ticker -> its entry
    posted             \* the posts /webhook received, in order, with its answers

vars == <<pc, now, last_cleanup, cleanup_failed, error_count, creds, cycle, response,
          idx, spot_prices, current_timestamp, sym_i, chain_data, market_data,
          written, store, notifications, fetches, served, deviations, run, call, stocks, posted>>

\* The variables only the worker's cycle touches.
cycle_locals == <<response, idx, spot_prices, current_timestamp, sym_i, chain_data>>
shared == <<market_data, written, store, notifications, fetches>>
cleanup_vars == <<last_cleanup, cleanup_failed>>

Fields == {"spot", "chain", "pcr", "sentiment", "max_pain", "alerts", "matrix"}

\* market_data = {'NIFTY': {'spot': 0, 'chain': []}, ...}: the keys the worker
\* adds later are here from the start, with an empty value.
InitEntry ==
    [spot |-> 0, chain |-> << >>, pcr |-> 0, sentiment |-> "", max_pain |-> 0,
     alerts |-> << >>, matrix |-> << >>]

NoResponse == [kind |-> "none", d |-> << >>]

\* stocks = {}: no ticker has an entry, and nothing was posted.
WebKeys == {"NIFTY", "ACME", "UNKNOWN"}
InitWeb ==
    /\ stocks = [k \in {} |-> << >>]
    /\ posted = << >>

\* No function outside the worker is being called.
NoCall == [fn |-> "none"]

\* The worker's part of the state after start-up.
InitWorker ==
    /\ pc = "start"
    /\ now = 0
    /\ last_cleanup = None
    /\ cleanup_failed = {}
    /\ error_count = 0
    /\ creds = load_token("absent")
    /\ cycle = 0
    /\ response = NoResponse
    /\ idx = 0
    /\ spot_prices = << >>
    /\ current_timestamp = None
    /\ sym_i = 1
    /\ chain_data = << >>
    /\ market_data = [s \in SymbolSet |-> InitEntry]
    /\ written = [s \in SymbolSet |-> [f \in Fields |-> 0]]
    /\ store = [s \in SymbolSet |-> [option_chain |-> {}, signals |-> {}, market_history |-> {}]]
    /\ notifications = << >>
    /\ fetches = << >>
    /\ served = [data |-> [s \in SymbolSet |-> InitEntry],
                 written |-> [s \in SymbolSet |-> [f \in Fields |-> 0]]]

\* The part of Init that is the program's state after start-up.
InitProgram ==
    /\ InitWorker
    /\ InitWeb
    /\ call = NoCall

\* Cycles within one day.
Init ==
    /\ InitProgram
    /\ deviations = 0
    /\ run = [cycles |-> MaxCycles, horizon |-> 0, deviations |-> MaxDeviations,
              faults |-> "any"]

\* The same, fewer cycles: the runs the handler reads along.
InitServe ==
    /\ InitProgram
    /\ deviations = 0
    /\ run = [cycles |-> MaxServeCycles, horizon |-> 0, deviations |-> MaxDeviations,
              faults |-> "any"]

\* Cycles while the clock moves on, up to MaxClockTime.
InitClock ==
    /\ InitProgram
    /\ deviations = 0
    /\ run = [cycles |-> MaxClockCycles, horizon |-> MaxClockTime, deviations |-> MaxDeviations,
              faults |-> "any"]

\* Cycles over MaxTime days in which the provider and the writes of the
\* cycle answer regularly and only the DELETE of a cleanup may raise.
InitCleanup ==
    /\ InitProgram
    /\ deviations = 0
    /\ run = [cycles |-> MaxClockCycles, horizon |-> MaxTime, deviations |-> MaxDeviations,
              faults |-> "cleanup"]

\* The answers the environment may give now.
DeviationLeft == deviations < run.deviations
CycleDeviationLeft == DeviationLeft /\ run.faults = "any"

ChainResponses(sym) ==
    RegularChainResponses(sym) \cup (IF CycleDeviationLeft THEN OtherChainResponses(sym) ELSE {})

QuoteResponses ==
    RegularQuoteResponses \cup (IF CycleDeviationLeft THEN OtherQuoteResponses ELSE {})

\* The databases whose DELETE raises in one cleanup.
CleanupFailures ==
    {{}} \cup (IF DeviationLeft THEN {{s} : s \in SymbolSet} ELSE {})

\* Whether a store write of the cycle succeeds.
WriteOutcomes == {TRUE} \cup (IF CycleDeviationLeft THEN {FALSE} ELSE {})

\* time.sleep and the blocking provider calls: the clock moves on by some
\* amount, here none or one day.
Elapse == \E d \in 0..1 : now + d <= run.horizon /\ now' = now + d

\* ------------------------------------------------------ cleanup_old_data
\* DELETE FROM option_chain WHERE timestamp < cutoff_date, in each database
\* whose statement does not raise; cutoff_date = get_ist_now() - 7 days.
cleanup_old_data_late(st, failed) ==
    LET cutoff_date == now - RetentionDays - 1
    IN  [s \in SymbolSet |->
           IF s \in failed THEN st[s]
           ELSE [st[s] EXCEPT !.option_chain = {r \in @ : ~(r.timestamp < cutoff_date)}]]

cleanup_old_data(st, failed) ==
    LET cutoff_date == now - RetentionDays
    IN  [s \in SymbolSet |->
           IF s \in failed THEN st[s]
           ELSE [st[s] EXCEPT !.option_chain = {r \in @ : ~(r.timestamp < cutoff_date)}]]

\* cleanup_old_data(); last_cleanup = datetime.now()   (worker start)
StartupCleanup ==
    /\ pc = "start"
    /\ \E failed \in CleanupFailures :
          /\ store' = cleanup_old_data(store, failed)
          /\ cleanup_failed' = failed
          /\ deviations' = deviations + Cardinality(failed)
    /\ last_cleanup' = now
    /\ pc' = "loop_top"
    /\ UNCHANGED <<now, error_count, creds, cycle, cycle_locals, market_data, written,
                   notifications, fetches, served, run, call, stocks, posted>>

\* (datetime.now() - last_cleanup).total_seconds() > 86400
CleanupDue == now - last_cleanup > CleanupPeriod

\* Top of the while loop: the periodic cleanup, when it is due.
LoopTop ==
    /\ pc = "loop_top"
    /\ IF CleanupDue
       THEN /\ \E failed \in CleanupFailures :
                  /\ store' = cleanup_old_data(store, failed)
                  /\ cleanup_failed' = failed
                  /\ deviations' = deviations + Cardinality(failed)
            /\ last_cleanup' = now
       ELSE UNCHANGED <<store, cleanup_vars, deviations>>
    /\ pc' = "load_token"
    /\ UNCHANGED <<now, error_count, creds, cycle, cycle_locals, market_data, written,
                   notifications, fetches, served, run, call, stocks, posted>>

\* creds = load_token(): the file holds whatever was written last.
LoadToken ==
    /\ pc = "load_token"
    /\ \E content \in TokenContents : creds' = load_token(content)
    /\ pc' = "check_token"
    /\ UNCHANGED <<now, cleanup_vars, error_count, cycle, cycle_locals, shared,
                   served, deviations, run, call, stocks, posted>>

\* The token check dropped.
TokenMissing_never(c) == FALSE

\* not creds.get('access_token')
TokenMissing(c) == c.access_token = ""

\* if not creds.get('access_token'): ...   A creds that is no dict has no
\* get: AttributeError, outside the try block, ends the thread.
CheckToken ==
    /\ pc = "check_token"
    /\ pc' = IF ~creds.is_dict THEN "exited"
             ELSE IF TokenMissing(creds) THEN "suspend"
             ELSE "connect"
    /\ UNCHANGED <<now, cleanup_vars, error_count, creds, cycle, cycle_locals, shared,
                   served, deviations, run, call, stocks, posted>>

\* time.sleep(3); continue
Suspend ==
    /\ pc = "suspend"
    /\ Elapse
    /\ pc' = "loop_top"
    /\ UNCHANGED <<cleanup_vars, error_count, creds, cycle, cycle_locals, shared,
                   served, deviations, run, call, stocks, posted>>

\* --------------------------------------------------------- a polling cycle
\* The symbol whose block of data_worker is executing.
Sym == Symbols[sym_i]
Spot == spot_prices[Sym]
Atm == AtmStrike(Spot, Interval(Sym))

\* try: fyers = FyersModel(client_id=creds['client_id'], ...);
\* response = fyers.quotes(...).  creds['client_id'] raises KeyError when the
\* key is missing; an answer without 'd' is counted, slept on and the loop
\* continues; otherwise spot_prices = {} and the loop over the items begins.
FetchQuotes ==
    /\ pc = "connect"
    /\ cycle < run.cycles
    /\ cycle' = cycle + 1
    /\ \/ /\ ~creds.has_client_id
          /\ pc' = "except"
          /\ UNCHANGED <<now, error_count, response, idx, spot_prices, deviations>>
       \/ /\ creds.has_client_id
          /\ \E r \in QuoteResponses :
             /\ deviations' = IF r \in OtherQuoteResponses THEN deviations + 1 ELSE deviations
             /\
               \/ /\ r.kind = "raise"
                  /\ pc' = "except"
                  /\ UNCHANGED <<now, error_count, response, idx, spot_prices>>
               \/ /\ r.kind = "no_d"
                  /\ response' = r
                  /\ error_count' = error_count + 1
                  /\ Elapse
                  /\ pc' = "loop_top"
                  /\ UNCHANGED <<idx, spot_prices>>
               \/ /\ r.kind = "d"
                  /\ response' = r
                  /\ error_count' = 0
                  /\ spot_prices' = << >>
                  /\ idx' = 1
                  /\ pc' = "spots"
                  /\ UNCHANGED now
    /\ UNCHANGED <<cleanup_vars, creds, current_timestamp, sym_i, chain_data, shared, served, run, call, stocks, posted>>

\* One pass of "for i, item in enumerate(response['d'])": item['n'] raises
\* KeyError when the key is missing; a known name with 'v'/'lp' sets
\* market_data[key]['spot'] and spot_prices[key].
UpdateSpot ==
    /\ pc = "spots"
    /\ IF idx > Len(response.d)
       THEN /\ pc' = "stamp"
            /\ UNCHANGED <<idx, spot_prices, market_data, written>>
       ELSE LET item == response.d[idx]
                key  == indices(item.n)
            IN  IF ~item.has_n
                THEN /\ pc' = "except"
                     /\ UNCHANGED <<idx, spot_prices, market_data, written>>
                ELSE /\ pc' = "spots"
                     /\ idx' = idx + 1
                     /\ IF key # "" /\ item.has_lp
                        THEN /\ market_data' = [market_data EXCEPT ![key].spot = item.lp]
                             /\ written' = [written EXCEPT ![key].spot = cycle]
                             /\ spot_prices' = (key :> item.lp) @@ spot_prices
                        ELSE UNCHANGED <<spot_prices, market_data, written>>
    /\ UNCHANGED <<now, cleanup_vars, error_count, creds, cycle, response,
                   current_timestamp, sym_i, chain_data, store,
                   notifications, fetches, served, deviations, run, call, stocks, posted>>

\* time.sleep(1); current_timestamp = get_ist_now().strftime(...)
StampCycle ==
    /\ pc = "stamp"
    /\ Elapse
    /\ current_timestamp' = now'
    /\ sym_i' = 1
    /\ pc' = "fetch"
    /\ UNCHANGED <<cleanup_vars, error_count, creds, cycle, response, idx, spot_prices,
                   chain_data, shared, served, deviations, run, call, stocks, posted>>

\* Where the worker goes when the block of symbol i is over.
PcAfterBlock(i) == IF i < Len(Symbols) THEN "fetch" ELSE "cycle_done"
IndexAfterBlock(i) == IF i < Len(Symbols) THEN i + 1 ELSE i

\* if sym in spot_prices: chain_data = fetch_option_chain_data(...); if
\* chain_data: mark ATM, sum the OI (TypeError on a None), pcr, senti.
FetchChain ==
    /\ pc = "fetch"
    /\ IF Sym \notin DOMAIN spot_prices
       THEN /\ pc' = PcAfterBlock(sym_i)
            /\ sym_i' = IndexAfterBlock(sym_i)
            /\ UNCHANGED <<now, chain_data, fetches, deviations>>
       ELSE /\ Elapse
            /\ fetches' = Append(fetches, [symbol |-> Sym, cycle |-> cycle])
            /\ \E res \in ChainResponses(Sym) :
                 LET chain == fetch_option_chain_data(res, Atm, Interval(Sym))
                 IN
                  /\ deviations' = IF res \in OtherChainResponses(Sym) THEN deviations + 1 ELSE deviations
                  /\ IF chain = << >>
                     THEN /\ chain_data' = chain
                          /\ pc' = PcAfterBlock(sym_i)
                          /\ sym_i' = IndexAfterBlock(sym_i)
                     ELSE /\ chain_data' = MarkAtm(chain, Atm)
                          /\ pc' = IF PcrRaises(chain) THEN "except" ELSE "w_chain"
                          /\ UNCHANGED sym_i
    /\ UNCHANGED <<cleanup_vars, error_count, creds, cycle, response, idx, spot_prices,
                   current_timestamp, market_data, written, store,
                   notifications, served, run, call, stocks, posted>>

\* One assignment market_data[sym][field] = value.
Assign(field, value, next) ==
    /\ market_data' = [market_data EXCEPT ![Sym][field] = value]
    /\ written' = [written EXCEPT ![Sym][field] = cycle]
    /\ pc' = next
    /\ UNCHANGED <<now, cleanup_vars, error_count, creds, cycle, cycle_locals,
                   store, notifications, fetches, served, deviations, run, call, stocks, posted>>

\* The exception handler is entered with nothing assigned.
Raise ==
    /\ pc' = "except"
    /\ UNCHANGED <<now, cleanup_vars, error_count, creds, cycle, cycle_locals,
                   shared, served, deviations, run, call, stocks, posted>>

\* market_data[sym]['chain'] = chain_data
WriteChain == pc = "w_chain" /\ Assign("chain", chain_data, "w_pcr")

\* market_data[sym]['pcr'] = pcr
WritePcr == pc = "w_pcr" /\ Assign("pcr", Pcr(chain_data), "w_sentiment")

\* market_data[sym]['sentiment'] = senti
WriteSentiment ==
    pc = "w_sentiment" /\ Assign("sentiment", Sentiment(Pcr(chain_data)), "w_max_pain")

\* market_data[sym]['max_pain'] = calculate_max_pain(chain_data)
WriteMaxPain ==
    pc = "w_max_pain" /\ Assign("max_pain", calculate_max_pain(chain_data), "w_alerts")

\* The value of calculate_signals(sym, chain_data, spot, pcr,
\* market_data[sym]['max_pain'], atm_strike) in the executing block.
BlockSignals ==
    calculate_signals(Sym, chain_data, Spot, Pcr(chain_data),
                      market_data[Sym].max_pain, Atm)

\* market_data[sym]['alerts'], market_data[sym]['matrix'] = calculate_signals(...):
\* the call, which may raise, and the first of the two stores.
WriteAlerts ==
    /\ pc = "w_alerts"
    /\ IF SignalsRaise(chain_data, Atm) THEN Raise
       ELSE Assign("alerts", BlockSignals[1], "w_matrix")


\* ------------------------------------------------------------ store writes
\* The cycle's timestamp not handed on: each write stamps its own time.
RowTimestamp_own(timestamp) == now

\* if not timestamp: timestamp = get_ist_now().strftime(...)
RowTimestamp(timestamp) == IF timestamp = None THEN now ELSE timestamp

\* A save function without its try/except: the error reaches the worker's
\* handler.
AfterWrite_propagates(ok, next) == IF ok THEN next ELSE "except"

\* The except clause of each save function: the error is printed and the
\* function returns, so the caller goes on with its next statement.
AfterWrite(ok, next) == next

\* save_signals_to_db: nothing on an empty list; one executemany and commit,
\* all rows or (when the write raises) none.
save_signals_to_db(st, symbol, signals, timestamp, ok) ==
    IF signals = << >> \/ ~ok THEN st
    ELSE [st EXCEPT ![symbol].signals =
            @ \cup {[timestamp |-> RowTimestamp(timestamp), cycle |-> cycle,
                     signals |-> signals]}]

\* save_to_db: nothing on an empty chain; a CE and a PE record per strike in
\* one executemany and commit.
save_to_db(st, symbol, chain, timestamp, ok) ==
    IF chain = << >> \/ ~ok THEN st
    ELSE [st EXCEPT ![symbol].option_chain =
            @ \cup {[timestamp |-> RowTimestamp(timestamp), cycle |-> cycle,
                     records |-> 2 * Len(chain)]}]

\* save_market_price: nothing when spot_price is falsy.
save_market_price(st, symbol, spot_price, timestamp, ok) ==
    IF spot_price = 0 \/ ~ok THEN st
    ELSE [st EXCEPT ![symbol].market_history =
            @ \cup {[timestamp |-> RowTimestamp(timestamp), cycle |-> cycle,
                     price |-> spot_price]}]

\* The block without its notification.
PcAfterMatrix_no_notify == "save_signals"

\* Where the worker goes once market_data[sym]['matrix'] is assigned: to
\* "if market_data[sym]['alerts']: ... send_fcm_alert(...)", and from there
\* to the three save calls.
PcAfterMatrix == "notify"
PcAfterNotify == "save_signals"

\* The second store of the same statement.
WriteMatrix == pc = "w_matrix" /\ Assign("matrix", BlockSignals[2], PcAfterMatrix)

\* if market_data[sym]['alerts']: send_fcm_alert(title, top_alert ...), which
\* catches whatever delivery raises.
TopAlert_last(alerts) == alerts[Len(alerts)]

\* top_alert = market_data[...]['alerts'][0]
TopAlert(alerts) == alerts[1]

Notify ==
    /\ pc = "notify"
    /\ LET alerts == market_data[Sym].alerts
       IN  notifications' =
             IF alerts # << >>
             THEN Append(notifications, [symbol |-> Sym, cycle |-> cycle, alert |-> TopAlert(alerts)])
             ELSE notifications
    /\ pc' = PcAfterNotify
    /\ UNCHANGED <<now, cleanup_vars, error_count, creds, cycle, cycle_locals,
                   market_data, written, store, fetches, served, deviations, run, call, stocks, posted>>

\* save_signals_to_db(sym, market_data[sym]['alerts'], current_timestamp)
SaveSignals ==
    /\ pc = "save_signals"
    /\ \E ok \in WriteOutcomes :
         /\ store' = save_signals_to_db(store, Sym, market_data[Sym].alerts,
                                        current_timestamp, ok)
         /\ pc' = AfterWrite(ok, "save_chain")
         /\ deviations' = IF ok THEN deviations ELSE deviations + 1
    /\ UNCHANGED <<now, cleanup_vars, error_count, creds, cycle, cycle_locals,
                   market_data, written, notifications, fetches, served, run, call, stocks, posted>>

\* save_to_db(sym, chain_data, current_timestamp)
SaveChain ==
    /\ pc = "save_chain"
    /\ \E ok \in WriteOutcomes :
         /\ store' = save_to_db(store, Sym, chain_data, current_timestamp, ok)
         /\ pc' = AfterWrite(ok, "save_price")
         /\ deviations' = IF ok THEN deviations ELSE deviations + 1
    /\ UNCHANGED <<now, cleanup_vars, error_count, creds, cycle, cycle_locals,
                   market_data, written, notifications, fetches, served, run, call, stocks, posted>>

\* save_market_price(sym, spot, current_timestamp), the last statement of
\* the block.
SavePrice ==
    /\ pc = "save_price"
    /\ \E ok \in WriteOutcomes :
         /\ store' = save_market_price(store, Sym, Spot, current_timestamp, ok)
         /\ pc' = AfterWrite(ok, PcAfterBlock(sym_i))
         /\ deviations' = IF ok THEN deviations ELSE deviations + 1
         /\ sym_i' = IF pc' = "except" THEN sym_i ELSE IndexAfterBlock(sym_i)
    /\ UNCHANGED <<now, cleanup_vars, error_count, creds, cycle, response, idx,
                   spot_prices, current_timestamp, chain_data, market_data, written,
                   notifications, fetches, served, run, call, stocks, posted>>

\* time.sleep(60); time.sleep(3)
SleepCycle ==
    /\ pc = "cycle_done"
    /\ Elapse
    /\ pc' = "loop_top"
    /\ UNCHANGED <<cleanup_vars, error_count, creds, cycle, cycle_locals, shared,
                   served, deviations, run, call, stocks, posted>>

\* except Exception as e: print(...); time.sleep(5)
Except ==
    /\ pc = "except"
    /\ Elapse
    /\ pc' = "loop_top"
    /\ UNCHANGED <<cleanup_vars, error_count, creds, cycle, cycle_locals, shared,
                   served, deviations, run, call, stocks, posted>>

\* ------------------------------------------------------------ the handler
\* /api/option_chain: return jsonify(market_data), at any moment of the
\* worker's run.
get_option_chain ==
    /\ served' = [data |-> market_data, written |-> written]
    /\ UNCHANGED <<pc, now, cleanup_vars, error_count, creds, cycle, cycle_locals,
                   shared, deviations, run, call, stocks, posted>>

data_worker ==
    \/ StartupCleanup \/ LoopTop \/ LoadToken \/ CheckToken \/ Suspend
    \/ FetchQuotes \/ UpdateSpot \/ StampCycle \/ FetchChain
    \/ WriteChain \/ WritePcr \/ WriteSentiment \/ WriteMaxPain
    \/ WriteAlerts \/ WriteMatrix \/ Notify
    \/ SaveSignals \/ SaveChain \/ SavePrice \/ SleepCycle \/ Except

Next == data_worker

Spec == Init /\ [][Next]_vars

NextServe == data_worker \/ get_option_chain

SpecServe == InitServe /\ [][NextServe]_vars

SpecClock == InitClock /\ [][Next]_vars

SpecCleanup == InitCleanup /\ [][Next]_vars

\* ================================================================ properties
\* What the store and the ghost logs say about one symbol in one cycle.
RowsOf(sym, table, c) == {r \in store[sym][table] : r.cycle = c}
Notified(sym, c) == \E i \in DOMAIN notifications :
                       notifications[i].symbol = sym /\ notifications[i].cycle = c
Fetched(sym, c) == \E i \in DOMAIN fetches : fetches[i] = [symbol |-> sym, cycle |-> c]
SymIndex(sym) == CHOOSE i \in DOMAIN Symbols : Symbols[i] = sym
Tables == {"option_chain", "signals", "market_history"}

\* The cycle is over: the worker is at its sleep or in its handler.
CycleEnded == pc \in {"cycle_done", "except"}

\* The symbols for which the quote answer holds a well-formed item.
QuotedSymbols(r) ==
    {indices(r.d[i].n) : i \in {j \in DOMAIN r.d : r.d[j].has_n /\ r.d[j].has_lp}} \ {""}

\* C1: an answer of /api/option_chain never holds a partially updated entry:
\* for every symbol, the seven fields it serves were all assigned by the
\* same cycle.
C1_ServedEntryOfOneCycle ==
    \A sym \in SymbolSet : \A f, g \in Fields :
        served.written[sym][f] = served.written[sym][g]

\* C2: a failure in one symbol, or a malformed quote item, does not keep the
\* later symbols of the same cycle from being processed: when a cycle that
\* read the quote answer is over, the chain of every symbol with a
\* well-formed quote item was fetched in it.
C2_LaterSymbolsProcessed ==
    (CycleEnded /\ \E s \in SymbolSet : written[s].spot = cycle)
        => \A sym \in QuotedSymbols(response) : Fetched(sym, cycle)

\* C3: the worker loop never terminates, whatever token.json holds and
\* whatever the provider and the store answer.
C3_WorkerNeverTerminates == pc # "exited"

\* C4: an iteration that loads credentials without an access token goes to
\* the short sleep and back to the top of the loop, and from the token
\* check to the top it fetches nothing, assigns nothing in market_data,
\* writes nothing to the store and notifies nobody; an iteration that loads
\* an access token enters a cycle.  (The cleanup at the top of the loop
\* comes before the token is loaded.)
C4_NoCycleWithoutToken ==
    [][ /\ (pc = "check_token" /\ creds.is_dict /\ creds.access_token = "")
            => (pc' = "suspend" /\ UNCHANGED <<shared, cycle>>)
        /\ pc = "suspend" => (pc' = "loop_top" /\ UNCHANGED <<shared, cycle>>)
        /\ (pc = "check_token" /\ creds.is_dict /\ creds.access_token # "")
            => pc' = "connect"
        /\ pc = "connect" => cycle' = cycle + 1 ]_vars

\* The token is gone after a cycle was executed, and the worker sleeps.
C4_Witness == pc = "suspend" /\ cycle >= 1 /\ fetches # << >>

\* C5: when a cycle is over, each symbol's entry is entirely of that cycle or
\* entirely untouched by it, and for an untouched one nothing was persisted
\* or notified.
C5_EntryReplacedOrUntouched ==
    CycleEnded =>
        \A sym \in SymbolSet :
            \/ \A f \in Fields : written[sym][f] = cycle
            \/ /\ \A f \in Fields : written[sym][f] # cycle
               /\ \A t \in Tables : RowsOf(sym, t, cycle) = {}
               /\ ~Notified(sym, cycle)

\* The block of Sym has analysed a non-empty chain with fewer than
\* MinStrikes strikes or without an ATM strike.
SuppressedBlock ==
    /\ pc \in {"notify", "save_signals", "save_chain", "save_price"}
    /\ chain_data # << >>
    /\ (Len(chain_data) < MinStrikes \/ Atm = 0)

\* C6, as stated: with such a chain nothing is notified and the symbol's
\* previous entry, signals and score card included, is left as it was.
C6_PreviousEntryKept ==
    SuppressedBlock =>
        /\ \A f \in Fields : written[Sym][f] # cycle
        /\ ~Notified(Sym, cycle)

\* C6, amended: with such a chain the entry is overwritten as in any other
\* cycle (chain, pcr, sentiment and max_pain of this cycle), its signals
\* become the empty list and its score card the empty card, nothing is
\* notified and no signal row is persisted.
C6_SuppressedAndOverwritten ==
    SuppressedBlock =>
        /\ market_data[Sym].alerts = << >>
        /\ market_data[Sym].matrix = << >>
        /\ market_data[Sym].chain = chain_data
        /\ market_data[Sym].pcr = Pcr(chain_data)
        /\ market_data[Sym].sentiment = Sentiment(Pcr(chain_data))
        /\ market_data[Sym].max_pain = calculate_max_pain(chain_data)
        /\ \A f \in Fields : written[Sym][f] = cycle
        /\ ~Notified(Sym, cycle)
        /\ RowsOf(Sym, "signals", cycle) = {}

\* A suppressed block for a symbol an earlier cycle had a signal for.
C6_Witness ==
    /\ SuppressedBlock
    /\ pc = "save_signals"
    /\ \E i \in DOMAIN notifications :
          notifications[i].symbol = Sym /\ notifications[i].cycle < cycle

\* What a step does to the logs and the store.
NotifiedNow == notifications' # notifications
RowAdded(sym, table) == store'[sym][table] \ store[sym][table] # {}

C8_OrderAndOneTimestamp ==
    /\ \A i, j \in DOMAIN fetches :
          (i < j /\ fetches[i].cycle = fetches[j].cycle)
              => SymIndex(fetches[i].symbol) < SymIndex(fetches[j].symbol)
    /\ \A s \in SymbolSet :
          (pc \notin {"spots", "stamp"} /\ SymIndex(s) > sym_i)
              => (~Fetched(s, cycle) /\ \A t \in Tables : RowsOf(s, t, cycle) = {})
    /\ \A s \in SymbolSet : \A t \in Tables : \A r \in RowsOf(s, t, cycle) :
          r.timestamp = current_timestamp
    /\ \A s1, s2 \in SymbolSet : \A t1, t2 \in Tables :
          \A r1 \in store[s1][t1] : \A r2 \in store[s2][t2] :
              r1.cycle = r2.cycle => r1.timestamp = r2.timestamp

\* A cycle that wrote the three symbols' rows while the clock moved on.
C8_Witness ==
    /\ pc = "cycle_done"
    /\ now > current_timestamp
    /\ \A s \in SymbolSet : \A t \in Tables : RowsOf(s, t, cycle) # {}

\* C9: an error of a store write is caught where the write is called: from
\* each of the three writes the worker goes on to its next statement, never
\* to the handler of the cycle, and market_data is kept.
C9_WriteErrorsContained ==
    [][ /\ pc = "save_signals" => (pc' = "save_chain" /\ market_data' = market_data)
        /\ pc = "save_chain" => (pc' = "save_price" /\ market_data' = market_data)
        /\ pc = "save_price" =>
              (pc' = (IF sym_i < Len(Symbols) THEN "fetch" ELSE "cycle_done")
               /\ market_data' = market_data) ]_vars

\* The write of NIFTY's signals failed, its chain was written all the same
\* and the cycle went on to write FINNIFTY's rows.
C9_Witness ==
    /\ pc = "cycle_done"
    /\ market_data["NIFTY"].alerts # << >>
    /\ written["NIFTY"].alerts = cycle
    /\ RowsOf("NIFTY", "signals", cycle) = {}
    /\ RowsOf("NIFTY", "option_chain", cycle) # {}
    /\ RowsOf("FINNIFTY", "option_chain", cycle) # {}

\* A step ran the cleanup.
CleanupRan == last_cleanup' # last_cleanup

\* C10: the cleanup runs at the start of the worker, then at the top of
\* exactly those loop iterations that find more than CleanupPeriod elapsed
\* since the last one ran, whether or not a cycle follows, and nowhere else;
\* right after a cleanup that met no error, no chain snapshot row is older
\* than RetentionDays.
C10_CleanupByElapsedTime ==
    [][ /\ pc = "start" => CleanupRan
        /\ pc = "loop_top" => (CleanupRan <=> now - last_cleanup > CleanupPeriod)
        /\ pc \notin {"start", "loop_top"} =>
              (~CleanupRan /\ \A s \in SymbolSet :
                                 store[s].option_chain \subseteq store'[s].option_chain)
        /\ CleanupRan =>
              /\ last_cleanup' = now
              /\ cleanup_failed' = {} =>
                    \A s \in SymbolSet : \A r \in store'[s].option_chain :
                        ~(r.timestamp < now - RetentionDays) ]_vars

\* A cleanup has just deleted a chain snapshot older than RetentionDays: the
\* price row of its cycle is still there.
C10_Witness ==
    /\ pc = "load_token"
    /\ last_cleanup = now
    /\ cleanup_failed = {}
    /\ deviations = 0
    /\ \E s \in SymbolSet : \E r \in store[s].market_history :
          /\ r.timestamp < now - RetentionDays
          /\ RowsOf(s, "option_chain", r.cycle) = {}

\* The notifications of a symbol in a cycle, and the place of a strategy in
\* the order of the signal list.
NotificationsOf(sym, c) ==
    {i \in DOMAIN notifications :
        notifications[i].symbol = sym /\ notifications[i].cycle = c}
StrategyRank(strategy) ==
    CASE strategy = "PCR Sentiment" -> 1
      [] strategy = "Max Pain Reversion" -> 2
      [] strategy = "Smart Money Flow" -> 3
      [] strategy = "Trend Alignment" -> 4
\* The cycle has computed the signals of sym and is past the notifier's call.
PastNotify(sym) ==
    /\ written[sym].alerts = cycle
    /\ ~(Sym = sym /\ pc \in {"w_matrix", "notify"})

\* C19: the notifier is called at most once per symbol and cycle: once when
\* the cycle produced a signal for the symbol, with the first signal of the
\* list (in the order PCR Sentiment, Max Pain Reversion, Smart Money Flow,
\* Trend Alignment), and not at all when the list is empty.
C19_OneNotificationOfTopSignal ==
    \A sym \in SymbolSet :
        /\ \A c \in 1..cycle : Cardinality(NotificationsOf(sym, c)) <= 1
        /\ \A i \in NotificationsOf(sym, cycle) :
              LET alerts == market_data[sym].alerts IN
              /\ written[sym].alerts = cycle
              /\ alerts # << >>
              /\ notifications[i].alert = alerts[1]
              /\ \A j \in DOMAIN alerts :
                    StrategyRank(notifications[i].alert.strategy)
                        <= StrategyRank(alerts[j].strategy)
        /\ PastNotify(sym) =>
              (NotificationsOf(sym, cycle) # {} <=> market_data[sym].alerts # << >>)

\* C19 witness: at the end of a cycle that produced two or more signals for
\* one symbol and none for another, the first was notified once and the
\* second not at all.
C19_Witness ==
    /\ pc = "cycle_done"
    /\ \E sym, quiet \in SymbolSet :
          /\ written[sym].alerts = cycle
          /\ Len(market_data[sym].alerts) >= 2
          /\ Cardinality(NotificationsOf(sym, cycle)) = 1
          /\ written[quiet].alerts = cycle
          /\ market_data[quiet].alerts = << >>
          /\ NotificationsOf(quiet, cycle) = {}

\* ============================================ calls outside the worker
\* The worker's variables, which a call of a function leaves alone, and the
\* run of a specification in which the worker does not move.
worker_vars == <<pc, now, cleanup_vars, error_count, creds, cycle, cycle_locals, shared,
                 served, deviations, run>>
InitIdle ==
    /\ InitWorker
    /\ InitWeb
    /\ deviations = 0
    /\ run = [cycles |-> 0, horizon |-> 0, deviations |-> 0, faults |-> "any"]

\* The function named fn is called with args, and returns value.
Calling(fn, args) == [fn |-> fn, args |-> args, returned |-> FALSE, result |-> None]
Return(value) ==
    /\ ~call.returned
    /\ call' = [call EXCEPT !.returned = TRUE, !.result = value]
    /\ UNCHANGED <<worker_vars, stocks, posted>>
Returned(fn) == call.fn = fn /\ call.returned

\* ------------------------------------------------------ calculate_max_pain
\* A chain row as calculate_max_pain reads it.
PainRow(k, ce_oi, pe_oi) == [NewRow(k) EXCEPT !.ce_oi = ce_oi, !.pe_oi = pe_oi]

\* The chains of up to MaxPainLen rows, in any order of unique strikes, with
\* an open interest of 0..MaxPainOi on each side.
PainStrikes == {24700 + 50 * k : k \in 1..MaxPainLen}
PainRows == {PainRow(k, c, p) : k \in PainStrikes, c \in 0..MaxPainOi, p \in 0..MaxPainOi}
PainChains ==
    UNION {{ch \in [1..n -> PainRows] :
               \A i, j \in 1..n : i # j => ch[i].strike # ch[j].strike} : n \in 1..MaxPainLen}

InitMaxPain ==
    /\ InitIdle
    /\ call \in {Calling("calculate_max_pain", [chain |-> ch]) : ch \in PainChains}

CallMaxPain ==
    /\ call.fn = "calculate_max_pain"
    /\ Return(calculate_max_pain(call.args.chain))

SpecMaxPain == InitMaxPain /\ [][CallMaxPain]_vars

\* The loss of the option writers at expiry price e, as the specification
\* defines it.
Max0(x) == IF x > 0 THEN x ELSE 0
RECURSIVE SumOver(_, _)
SumOver(f, S) == IF S = {} THEN 0
                 ELSE LET x == CHOOSE y \in S : TRUE IN f[x] + SumOver(f, S \ {x})
WriterPain(chain, e) ==
    SumOver([i \in DOMAIN chain |->
                Max0(e - chain[i].strike) * chain[i].ce_oi
                    + Max0(chain[i].strike - e) * chain[i].pe_oi], DOMAIN chain)

\* C11: for a non-empty chain of unique strikes and non-negative open
\* interest, calculate_max_pain returns a strike of the chain that no other
\* strike beats in total writer pain, and of the strikes that tie for the
\* least pain the one that comes first in the chain.
C11_MaxPainIsFirstMinimum ==
    Returned("calculate_max_pain") =>
        LET chain == call.args.chain IN
        \E i \in DOMAIN chain :
            /\ call.result = chain[i].strike
            /\ \A j \in DOMAIN chain :
                  WriterPain(chain, chain[j].strike) >= WriterPain(chain, call.result)
            /\ \A j \in 1..(i - 1) :
                  WriterPain(chain, chain[j].strike) > WriterPain(chain, call.result)

\* Two strikes tie for the least pain and the first of them is not the first
\* row of the chain.
C11_Witness ==
    /\ Returned("calculate_max_pain")
    /\ LET chain == call.args.chain IN
       /\ Len(chain) = MaxPainLen
       /\ call.result # chain[1].strike
       /\ \E j \in DOMAIN chain :
             /\ chain[j].strike # call.result
             /\ WriterPain(chain, chain[j].strike) = WriterPain(chain, call.result)

\* ------------------------------------------------------- calculate_signals
\* The chains handed to calculate_signals: ten strikes within 1.2% of the
\* ATM strike SigAtm and one below that range, whose changes must not
\* count.  The near rows carry a CE OI change of ce on the first row and a
\* PE OI change of pe on the second, and CE trends that add up to a trend
\* score of t halves.
SigAtm == 24800
SigFarRow ==
    [NewRow(24450) EXCEPT !.ce_oich = 7, !.pe_oich = -7, !.ce_trend = "Long Buildup"]
SigTrend(i, t) ==
    LET n == Abs(t) \div 2 IN
    IF i <= n THEN (IF t > 0 THEN "Long Buildup" ELSE "Short Buildup")
    ELSE IF i = n + 1 /\ Abs(t) % 2 = 1
         THEN (IF t > 0 THEN "Short Covering" ELSE "Long Unwinding")
         ELSE "Neutral"
SigChain(ce, pe, t) ==
    <<SigFarRow>> \o
    [i \in 1..MinStrikes |->
        [NewRow(24600 + 50 * (i - 1)) EXCEPT
            !.ce_oich = IF i = 1 THEN ce ELSE 0,
            !.pe_oich = IF i = 2 THEN pe ELSE 0,
            !.ce_trend = SigTrend(i, t)]]

SigSymbols == {"NIFTY", "BANKNIFTY"}
SigPcrs == {89, 90, 91, 100, 109, 110, 111}
SigSpots == {SigAtm + d : d \in {-101, -100, -51, -50, 0, 50, 51, 100, 101}}

SignalCalls ==
    {Calling("calculate_signals",
             [symbol |-> sym, chain |-> SigChain(ce, pe, t), spot |-> spot, pcr |-> pcr,
              max_pain |-> SigAtm, atm_strike |-> SigAtm]) :
        sym \in SigSymbols, ce \in (-1)..MaxFlow, pe \in (-1)..MaxFlow,
        t \in (-MaxTrend)..MaxTrend, spot \in SigSpots, pcr \in SigPcrs}

InitSignals ==
    /\ InitIdle
    /\ call \in SignalCalls

CallSignals ==
    /\ call.fn = "calculate_signals"
    /\ LET a == call.args
       IN  Return(calculate_signals(a.symbol, a.chain, a.spot, a.pcr, a.max_pain,
                                    a.atm_strike))

SpecSignals == InitSignals /\ [][CallSignals]_vars

\* What the call that returned was given and what it gave back.
SigArgs == call.args
SigSignals == call.result[1]
SigCard == call.result[2]
SigNear == {i \in DOMAIN SigArgs.chain : IsNear(SigArgs.chain[i], SigArgs.atm_strike)}
CallSum == SumOver([i \in SigNear |-> SigArgs.chain[i].ce_oich], SigNear)
PutSum == SumOver([i \in SigNear |-> SigArgs.chain[i].pe_oich], SigNear)
TrendHalves == SumOver([i \in SigNear |-> RowTrendScore(SigArgs.chain[i])], SigNear)

\* The contribution of each rule to the score of the call that returned.
FlowPart == FlowScore(FlowStatus(CallSum, PutSum))
TrendPart == TrendPoints(TrendStatus(TrendHalves))
PcrPart == PcrPoints(SigArgs.pcr)
MaxPainPart == MaxPainPoints(SigArgs.symbol, SigArgs.spot, SigArgs.max_pain)

\* C12: past the guard, each rule's contribution to the composite score is
\* in its documented set, the score of the card is the sum of the four, and
\* so it lies between -10 and 10.
C12_ScoreIsSumOfBoundedParts ==
    Returned("calculate_signals") =>
        /\ FlowPart \in {-4, -3, 0, 3, 4}
        /\ TrendPart \in {-2, 0, 2}
        /\ PcrPart \in {-2, 0, 2}
        /\ MaxPainPart \in {-1, 0, 1}
        /\ SigCard.score = FlowPart + TrendPart + PcrPart + MaxPainPart
        /\ -10 <= SigCard.score /\ SigCard.score <= 10

\* All four rules pull the same way: the largest score there is.
C12_Witness ==
    /\ Returned("calculate_signals")
    /\ FlowPart = 4 /\ TrendPart = 2 /\ PcrPart = 2 /\ MaxPainPart = 1
    /\ SigCard.score = 9

\* The signals of one strategy in the list that was returned.
SignalsOf(strategy) ==
    {SigSignals[i].type : i \in {j \in DOMAIN SigSignals : SigSignals[j].strategy = strategy}}

\* C13: Smart Money Flow is Bullish when the call sum is negative and the
\* put sum positive, or when both are positive and the put sum is at least
\* 1.5 times the call sum; Bearish in the mirrored cases; and in every other
\* case Balanced, with no flow signal.
C13_FlowClassification ==
    Returned("calculate_signals") =>
        SignalsOf("Smart Money Flow") =
            IF (CallSum < 0 /\ PutSum > 0)
                  \/ (CallSum > 0 /\ PutSum > 0 /\ 2 * PutSum >= 3 * CallSum)
            THEN {"BULLISH"}
            ELSE IF (PutSum < 0 /\ CallSum > 0)
                       \/ (CallSum > 0 /\ PutSum > 0 /\ 2 * CallSum >= 3 * PutSum)
                 THEN {"BEARISH"}
                 ELSE {}

\* The number of rules that contributed to the score.
Contributing ==
    Cardinality({r \in {"flow", "trend", "pcr", "max_pain"} :
                    CASE r = "flow" -> FlowPart # 0
                      [] r = "trend" -> TrendPart # 0
                      [] r = "pcr" -> PcrPart # 0
                      [] OTHER -> MaxPainPart # 0})

\* C14: the reasons of the card are those of the first two contributing
\* rules in the order flow, trend, PCR, max-pain, so there are as many
\* reasons as contributing rules, up to two, and the reasons of flow, trend
\* and PCR come in that order.
C14_ReasonsOfTopTwoRules ==
    Returned("calculate_signals") =>
        /\ Len(SigCard.reasons) = (IF Contributing < 2 THEN Contributing ELSE 2)
        /\ LET all == FlowReason(FlowStatus(CallSum, PutSum))
                         \o TrendReason(TrendStatus(TrendHalves))
                         \o PcrReason(SigArgs.pcr)
           IN  \A i \in DOMAIN SigCard.reasons :
                  i <= Len(all) => SigCard.reasons[i] = all[i]

\* C18: past the guard a Bullish Max Pain Reversion signal is emitted iff
\* spot < max_pain - divisor and PCR > 0.9, a Bearish one iff
\* spot > max_pain + divisor and PCR < 1.1, with a divisor of 100 for
\* BANKNIFTY and 50 otherwise; and none in every other case.
C18_MaxPainReversion ==
    Returned("calculate_signals") =>
        LET divisor == IF SigArgs.symbol = "BANKNIFTY" THEN 100 ELSE 50 IN
        SignalsOf("Max Pain Reversion") =
            IF SigArgs.spot < SigArgs.max_pain - divisor /\ SigArgs.pcr > 90
            THEN {"BULLISH"}
            ELSE IF SigArgs.spot > SigArgs.max_pain + divisor /\ SigArgs.pcr < 110
                 THEN {"BEARISH"}
                 ELSE {}

\* C18 witness: BANKNIFTY with spot 101 points below max pain, just past
\* its divisor of 100, and a PCR of 0.91 gets a Bullish Max Pain Reversion.
C18_Witness ==
    /\ Returned("calculate_signals")
    /\ SigArgs.symbol = "BANKNIFTY"
    /\ SigArgs.spot = SigArgs.max_pain - 101
    /\ SigArgs.pcr = 91
    /\ SignalsOf("Max Pain Reversion") = {"BULLISH"}

\* The signals of a strategy agree with a rule's contribution to the score.
SignalMatches(strategy, part) ==
    /\ "BULLISH" \in SignalsOf(strategy) <=> part > 0
    /\ "BEARISH" \in SignalsOf(strategy) <=> part < 0

\* C22: past the guard the signal list and the score card agree: the list
\* has at most one signal of each strategy, so at most 4, in the order PCR
\* Sentiment, Max Pain Reversion, Smart Money Flow, Trend Alignment; a
\* Bullish (Bearish) signal of PCR, flow or trend is there iff that rule's
\* contribution is positive (negative); and a Bullish (Bearish) Max Pain
\* Reversion implies a max-pain contribution of +1 (-1).
C22_SignalsAgreeWithCard ==
    Returned("calculate_signals") =>
        /\ Len(SigSignals) <= 4
        /\ \A i, j \in DOMAIN SigSignals :
              i < j => StrategyRank(SigSignals[i].strategy)
                          < StrategyRank(SigSignals[j].strategy)
        /\ \A i \in DOMAIN SigSignals : SigSignals[i].type \in {"BULLISH", "BEARISH"}
        /\ SignalMatches("PCR Sentiment", PcrPart)
        /\ SignalMatches("Smart Money Flow", FlowPart)
        /\ SignalMatches("Trend Alignment", TrendPart)
        /\ "BULLISH" \in SignalsOf("Max Pain Reversion") => MaxPainPart = 1
        /\ "BEARISH" \in SignalsOf("Max Pain Reversion") => MaxPainPart = -1

\* C22 witness: all four strategies signal at once, Bearish for the flow and
\* Bullish for the other three, while the card counts +2 for PCR, +1 for max
\* pain, a negative flow and +2 for the trend.
C22_Witness ==
    /\ Returned("calculate_signals")
    /\ Len(SigSignals) = 4
    /\ SignalsOf("PCR Sentiment") = {"BULLISH"} /\ PcrPart = 2
    /\ SignalsOf("Max Pain Reversion") = {"BULLISH"} /\ MaxPainPart = 1
    /\ SignalsOf("Smart Money Flow") = {"BEARISH"} /\ FlowPart < 0
    /\ SignalsOf("Trend Alignment") = {"BULLISH"} /\ TrendPart = 2

\* ---------------------------------------------------------- get_oi_history
\* Timestamps of the stored rows are seconds of the day; the handler keeps
\* the buckets from 09:15:00 to 15:30:00.
MarketOpen == 33300
MarketClose == 55800

range_limit_flat(symbol) == 1000

\* range_limit = 1000; 2000 for BANKNIFTY, 500 for FINNIFTY.
range_limit(symbol) ==
    IF symbol = "BANKNIFTY" THEN 2000 ELSE IF symbol = "FINNIFTY" THEN 500 ELSE 1000

\* A row of the query on option_chain: timestamp, strike, type, oich, ltp.
ChainRow(ts, strike, type, oich, ltp) ==
    [timestamp |-> ts, strike |-> strike, type |-> type, oich |-> oich, ltp |-> ltp]

\* The keys of a dict filled in the order of rows, in insertion order.
RECURSIVE KeysInOrder(_, _, _)
KeysInOrder(keys, i, acc) ==
    IF i > Len(keys) THEN acc
    ELSE IF \E j \in DOMAIN acc : acc[j] = keys[i]
         THEN KeysInOrder(keys, i + 1, acc)
         ELSE KeysInOrder(keys, i + 1, Append(acc, keys[i]))

RowsAt(rows, ts) == SelectSeq(rows, LAMBDA r : r.timestamp = ts)

\* strike_map[strike][otype] = ltp: whether the key is there, and the value
\* the last row of that strike and type left.
HasLeg(rows, strike, type) ==
    \E i \in DOMAIN rows : rows[i].strike = strike /\ rows[i].type = type
LtpOf(rows, strike, type) ==
    LET last == CHOOSE i \in DOMAIN rows :
                   /\ rows[i].strike = strike /\ rows[i].type = type
                   /\ \A j \in DOMAIN rows :
                         (rows[j].strike = strike /\ rows[j].type = type) => j <= i
    IN  rows[last].ltp

\* The loop over strike_map.items(): best_strike after the strikes i.. ;
\* None stands for best_strike = None, min_diff = inf.
RECURSIVE BestStrikeFrom(_, _, _, _)
BestStrikeFrom(rows, strikes, i, best) ==
    IF i > Len(strikes) THEN best
    ELSE LET k == strikes[i]
             diff == Abs(LtpOf(rows, k, "CE") - LtpOf(rows, k, "PE"))
             min_diff == Abs(LtpOf(rows, best, "CE") - LtpOf(rows, best, "PE"))
         IN  IF HasLeg(rows, k, "CE") /\ HasLeg(rows, k, "PE")
                   /\ (best = None \/ diff < min_diff)
             THEN BestStrikeFrom(rows, strikes, i + 1, k)
             ELSE BestStrikeFrom(rows, strikes, i + 1, best)

StrikesOf(rows) == KeysInOrder([i \in DOMAIN rows |-> rows[i].strike], 1, << >>)

\* if best_strike: spot = best_strike   (a strike of 0 is falsy)
ProxySpot(rows) ==
    LET best_strike == BestStrikeFrom(rows, StrikesOf(rows), 1, None)
    IN  IF best_strike = None \/ best_strike = 0 THEN None ELSE best_strike

\* spot = price_map.get(ts), or the proxy when there is no tick.
BucketSpot(rows, ts, price_map) ==
    IF ts \in DOMAIN price_map THEN price_map[ts] ELSE ProxySpot(rows)

\* The sum of oich over the rows of one type within range_limit of spot.
RECURSIVE SumOich(_, _, _, _, _)
SumOich(rows, i, type, spot, limit) ==
    IF i > Len(rows) THEN 0
    ELSE (IF rows[i].type = type /\ Abs(rows[i].strike - spot) <= limit
          THEN rows[i].oich ELSE 0) + SumOich(rows, i + 1, type, spot, limit)

\* abs(data['CE'] - data['PE']) and the sums raise TypeError on a None.
BucketRaises(rows, ts, price_map, limit) ==
    \/ /\ ts \notin DOMAIN price_map
       /\ \E i, j \in DOMAIN rows :
             /\ rows[i].strike = rows[j].strike
             /\ rows[i].type = "CE" /\ rows[j].type = "PE"
             /\ (LtpOf(rows, rows[i].strike, "CE") = None
                    \/ LtpOf(rows, rows[i].strike, "PE") = None)
    \/ LET spot == BucketSpot(rows, ts, price_map) IN
       /\ spot # None
       /\ \E i \in DOMAIN rows :
             /\ rows[i].type \in {"CE", "PE"}
             /\ Abs(rows[i].strike - spot) <= limit
             /\ rows[i].oich = None

\* The entries one bucket appends to history: none outside market hours or
\* without a spot, else one.
BucketEntries(rows, ts, price_map, limit) ==
    LET spot == BucketSpot(rows, ts, price_map) IN
    IF ~(MarketOpen <= ts /\ ts <= MarketClose) \/ spot = None THEN << >>
    ELSE << [time |-> ts,
             ce_change |-> SumOich(rows, 1, "CE", spot, limit),
             pe_change |-> SumOich(rows, 1, "PE", spot, limit),
             price |-> IF ts \in DOMAIN price_map THEN price_map[ts] ELSE None] >>

\* history.sort(key=lambda x: x['time'])
RECURSIVE InsertByTime(_, _)
InsertByTime(sorted, e) ==
    IF sorted = << >> THEN <<e>>
    ELSE IF sorted[Len(sorted)].time <= e.time THEN Append(sorted, e)
    ELSE Append(InsertByTime(SubSeq(sorted, 1, Len(sorted) - 1), e), sorted[Len(sorted)])

RECURSIVE HistoryFrom(_, _, _, _, _, _)
HistoryFrom(chain_rows, stamps, i, price_map, limit, acc) ==
    IF i > Len(stamps) THEN acc
    ELSE LET e == BucketEntries(RowsAt(chain_rows, stamps[i]), stamps[i], price_map, limit)
         IN  HistoryFrom(chain_rows, stamps, i + 1, price_map, limit,
                         IF e = << >> THEN acc ELSE InsertByTime(acc, e[1]))

\* The answer of /api/oi_history for the rows the two queries returned:
\* the history, or the error of the except clause.
get_oi_history(symbol, price_map, chain_rows) ==
    LET stamps == KeysInOrder([i \in DOMAIN chain_rows |-> chain_rows[i].timestamp], 1, << >>)
        limit == range_limit(symbol)
        raises == \E i \in DOMAIN stamps :
                     /\ MarketOpen <= stamps[i] /\ stamps[i] <= MarketClose
                     /\ BucketRaises(RowsAt(chain_rows, stamps[i]), stamps[i], price_map, limit)
    IN  IF raises THEN [error |-> TRUE, history |-> << >>]
        ELSE [error |-> FALSE,
              history |-> HistoryFrom(chain_rows, stamps, 1, price_map, limit, << >>)]

\* The stored buckets the handler is called on: one bucket whose legs, tick
\* and time of day vary, and one bucket at 11:06:40 with a tick.
HistStrikes == <<24800, 25300, 25801>>
HistLtps == {10 * k : k \in 1..MaxLtp}
HistTimes == {MarketOpen - 1, MarketOpen, MarketClose, MarketClose + 1}
HistFixedTime == 40000
HistTick == 24799
HistSlots == {<<i, t>> : i \in DOMAIN HistStrikes, t \in {"CE", "PE"}}
\* oich of the leg in a slot: a different power of two for each strike,
\* positive for calls and negative for puts.
HistOich(i, t) == IF t = "CE" THEN 2 ^ (i - 1) ELSE -(2 ^ (i - 1))

\* The rows save_to_db left for one bucket, in the order it wrote them; legs
\* maps a slot to the last price of its row, None for a row that is not there.
HistBucketRows(ts, legs) ==
    LET all == <<<<1, "CE">>, <<1, "PE">>, <<2, "CE">>, <<2, "PE">>, <<3, "CE">>, <<3, "PE">>>>
        kept == SelectSeq(all, LAMBDA sl : legs[sl] # None)
    IN  [n \in DOMAIN kept |->
            ChainRow(ts, HistStrikes[kept[n][1]], kept[n][2],
                     HistOich(kept[n][1], kept[n][2]), legs[kept[n]])]

HistFixedRows == <<ChainRow(HistFixedTime, 24800, "CE", 64, 10)>>

\* ORDER BY timestamp ASC
HistChainRows(ts, legs) ==
    IF ts < HistFixedTime THEN HistBucketRows(ts, legs) \o HistFixedRows
    ELSE HistFixedRows \o HistBucketRows(ts, legs)

HistPriceMap(ts, tick) ==
    [t \in (IF tick THEN {ts, HistFixedTime} ELSE {HistFixedTime}) |-> HistTick]

HistoryCalls ==
    {Calling("get_oi_history",
             [symbol |-> sym, ts |-> ts,
              price_map |-> HistPriceMap(ts, tick),
              chain_rows |-> HistChainRows(ts, legs)]) :
        sym \in {"NIFTY", "FINNIFTY"}, ts \in HistTimes, tick \in BOOLEAN,
        legs \in [HistSlots -> HistLtps \cup {None}]}

InitHistory ==
    /\ InitIdle
    /\ call \in HistoryCalls

CallHistory ==
    /\ call.fn = "get_oi_history"
    /\ Return(get_oi_history(call.args.symbol, call.args.price_map, call.args.chain_rows))

SpecHistory == InitHistory /\ [][CallHistory]_vars

\* The bucket under study and what the specification says about it.
HistRows == SelectSeq(call.args.chain_rows, LAMBDA r : r.timestamp = call.args.ts)
HistInHours == MarketOpen <= call.args.ts /\ call.args.ts <= MarketClose
HistNoTick == call.args.ts \notin DOMAIN call.args.price_map
HistBoth == {k \in {HistRows[i].strike : i \in DOMAIN HistRows} :
                /\ \E i \in DOMAIN HistRows : HistRows[i].strike = k /\ HistRows[i].type = "CE"
                /\ \E i \in DOMAIN HistRows : HistRows[i].strike = k /\ HistRows[i].type = "PE"}
HistLtp(k, t) ==
    LET i == CHOOSE j \in DOMAIN HistRows : HistRows[j].strike = k /\ HistRows[j].type = t
    IN  HistRows[i].ltp
HistDiff(k) == Abs(HistLtp(k, "CE") - HistLtp(k, "PE"))
HistSum(t, spot) ==
    SumOver([i \in DOMAIN HistRows |->
                IF HistRows[i].type = t
                      /\ Abs(HistRows[i].strike - spot)
                            <= (IF call.args.symbol = "FINNIFTY" THEN 500 ELSE 1000)
                THEN HistRows[i].oich ELSE 0], DOMAIN HistRows)
HistEntries == {i \in DOMAIN call.result.history :
                   call.result.history[i].time = call.args.ts}

\* C15: a bucket of the OI history without a recorded spot tick is filtered
\* around the strike, among those with both a CE and a PE row, whose
\* |CE ltp - PE ltp| is smallest: its entry has a null price and the sums of
\* OI change of the CE and of the PE rows within the symbol's range limit of
\* that strike; without such a strike the bucket is left out.  An emitted
\* price is non-null exactly when the entry's timestamp has a tick.
C15_ProxySpotAggregation ==
    Returned("get_oi_history") =>
        /\ ~call.result.error
        /\ (HistInHours /\ HistNoTick) =>
              IF HistBoth = {} THEN HistEntries = {}
              ELSE /\ Cardinality(HistEntries) = 1
                   /\ \E k \in HistBoth :
                         /\ \A j \in HistBoth : HistDiff(k) <= HistDiff(j)
                         /\ \A i \in HistEntries :
                               LET e == call.result.history[i] IN
                               /\ e.price = None
                               /\ e.ce_change = HistSum("CE", k)
                               /\ e.pe_change = HistSum("PE", k)
        /\ \A i \in DOMAIN call.result.history :
              LET e == call.result.history[i] IN
              (e.price # None) <=> (e.time \in DOMAIN call.args.price_map)

\* C15 witness: a FINNIFTY bucket inside market hours without a tick whose
\* closest pair of last prices is at 25300 only; its entry has a null price
\* and leaves the rows at 25801 out of the sums.
C15_Witness ==
    /\ Returned("get_oi_history")
    /\ call.args.symbol = "FINNIFTY"
    /\ HistInHours /\ HistNoTick
    /\ HistBoth = {24800, 25300, 25801}
    /\ HistDiff(25300) < HistDiff(24800) /\ HistDiff(25300) < HistDiff(25801)
    /\ \E i \in HistEntries :
          /\ call.result.history[i].price = None
          /\ call.result.history[i].ce_change = 3
          /\ call.result.history[i].pe_change = -3

\* ------------------------------------------------------------------ webhook
\* The bodies posted to /webhook: one that is not JSON, and JSON objects with
\* no ticker or with one of three tickers.
NoTicker == "(no ticker)"
WebBodies == {[json |-> FALSE, ticker |-> NoTicker]}
                \cup {[json |-> TRUE, ticker |-> t] : t \in {"nifty", "NIFTY", "acme", NoTicker}}

\* data.get('ticker', 'UNKNOWN').upper()
Upper(t) == CASE t = "nifty" -> "NIFTY"
              [] t = "acme" -> "ACME"
              [] OTHER -> t
TickerOf(data) == IF data.ticker = NoTicker THEN "UNKNOWN" ELSE Upper(data.ticker)

\* Number of entries a ticker keeps.
KeepSignals == 5

Trim_six(signals) == SubSeq(signals, 1, IF Len(signals) < 6 THEN Len(signals) ELSE 6)

\* stocks[ticker]['signals'][:5]
Trim(signals) ==
    SubSeq(signals, 1, IF Len(signals) < KeepSignals THEN Len(signals) ELSE KeepSignals)

\* The n-th post is received at second n of the clock, and carries n as its
\* price.
signal_entry(data, n) ==
    [strategy |-> "Alert", action |-> "INFO", price |-> n, timestamp |-> n]

\* POST /webhook
webhook ==
    /\ Len(posted) < MaxPosts
    /\ \E data \in WebBodies :
          LET n == Len(posted) + 1
              ticker == TickerOf(data)
              before == IF ticker \notin DOMAIN stocks
                        THEN [last_updated |-> 0, signals |-> << >>]
                        ELSE stocks[ticker]
          IN  IF ~data.json
              THEN /\ posted' = Append(posted, [data |-> data, status |-> 400])
                   /\ UNCHANGED stocks
              ELSE /\ stocks' = [k \in DOMAIN stocks \cup {ticker} |->
                                    IF k = ticker
                                    THEN [last_updated |-> n,
                                          signals |-> Trim(<<signal_entry(data, n)>>
                                                               \o before.signals)]
                                    ELSE stocks[k]]
                   /\ posted' = Append(posted, [data |-> data, status |-> 200])
    /\ UNCHANGED <<worker_vars, call>>

InitWebhook ==
    /\ InitIdle
    /\ call = NoCall

SpecWebhook == InitWebhook /\ [][webhook]_vars

\* The receipt numbers of the posts accepted for a ticker, oldest first.
RECURSIVE AcceptedFor(_, _)
AcceptedFor(k, n) ==
    IF n = 0 THEN << >>
    ELSE LET p == posted[n]
             hit == /\ p.status = 200
                    /\ \/ p.data.ticker \in {"nifty", "NIFTY"} /\ k = "NIFTY"
                       \/ p.data.ticker = "acme" /\ k = "ACME"
                       \/ p.data.ticker = NoTicker /\ k = "UNKNOWN"
         IN  IF hit THEN Append(AcceptedFor(k, n - 1), n) ELSE AcceptedFor(k, n - 1)

\* C16: after any sequence of posts, the signal list of each ticker holds at
\* most 5 entries, which are the min(n, 5) entries received last for that
\* ticker, newest first; so the posts for another ticker leave it as it was.
C16_LastFivePerTicker ==
    \A k \in WebKeys :
        LET mine == AcceptedFor(k, Len(posted))
            n == Len(mine)
            kept == IF n < 5 THEN n ELSE 5
        IN  IF n = 0 THEN k \notin DOMAIN stocks
            ELSE /\ k \in DOMAIN stocks
                 /\ Len(stocks[k].signals) = kept
                 /\ \A i \in 1..kept : stocks[k].signals[i].price = mine[n + 1 - i]

\* C16 witness: a ticker that received six posts keeps the last five, and
\* the first is gone.
C16_Witness ==
    /\ Len(AcceptedFor("NIFTY", Len(posted))) = 6
    /\ "NIFTY" \in DOMAIN stocks
    /\ Len(stocks["NIFTY"].signals) = 5
    /\ stocks["NIFTY"].signals[1].price = 6
    /\ stocks["NIFTY"].signals[5].price = 2

\* --------------------------------------------------------- get_next_tuesday
\* A datetime is a day, counted from a Monday, and a minute of that day.
DateTime(day, minute) == [day |-> day, minute |-> minute]
weekday(t) == t.day % 7
hour(t) == t.minute \div 60

\* today + timedelta(days=days_ahead)
get_next_tuesday(today) ==
    LET d0 == 1 - weekday(today)
        d1 == IF d0 < 0 THEN d0 + 7 ELSE d0
        days_ahead == IF d1 = 0 /\ hour(today) > 15 THEN d1 + 7 ELSE d1
    IN  DateTime(today.day + days_ahead, today.minute)

\* The times of day get_ist_now gives: midnight, around 15:00, 15:30, around
\* 16:00 and the last minute of the day.
ExpiryMinutes == {0, 899, 900, 901, 930, 959, 960, 1439}

InitExpiry ==
    /\ InitIdle
    /\ call \in {Calling("get_next_tuesday", [today |-> DateTime(d, m)]) :
                    d \in 0..MaxExpiryDay, m \in ExpiryMinutes}

CallExpiry ==
    /\ call.fn = "get_next_tuesday"
    /\ Return(get_next_tuesday(call.args.today))

SpecExpiry == InitExpiry /\ [][CallExpiry]_vars

\* C17: get_next_tuesday gives the first Tuesday on or after the day of now,
\* except that on a Tuesday at any time past 15:00 it gives the Tuesday of
\* the week after; the result is a Tuesday at most 7 days after now.
C17_NextTuesdayRollsPastThree ==
    Returned("get_next_tuesday") =>
        LET today == call.args.today
            ahead == call.result.day - today.day
            first == CHOOSE d \in 0..6 : (today.day + d) % 7 = 1
        IN  /\ call.result.day % 7 = 1
            /\ ahead \in 0..7
            /\ ahead = IF today.day % 7 = 1 /\ today.minute > 15 * 60 THEN 7 ELSE first

\* -------------------------------------------- fetch_option_chain_data, alone
\* The raw legs of an answer: calls and puts on three strikes with one of
\* two open interests, and a call whose oich is missing.
ChainAtm == 24800
ChainInterval == 50
ChainLegs ==
    {Leg(k, t, 120, oi, 1, 10) :
        k \in {ChainAtm - 50, ChainAtm, ChainAtm + 50}, t \in {"CE", "PE"}, oi \in {100, 200}}
    \cup {Leg(ChainAtm, "CE", 120, 100, 1, None)}

RECURSIVE LegSeqs(_)
LegSeqs(n) ==
    IF n = 0 THEN {<< >>}
    ELSE LET shorter == LegSeqs(n - 1)
         IN  shorter \cup {Append(q, l) : q \in {x \in shorter : Len(x) = n - 1},
                                          l \in ChainLegs}

ChainCalls ==
    {Calling("fetch_option_chain_data",
             [res |-> res, atm_strike |-> atm, interval |-> ChainInterval]) :
        res \in {[kind |-> "chain", legs |-> q] : q \in LegSeqs(MaxLegs)}
                   \cup {[kind |-> "raise", legs |-> << >>],
                         [kind |-> "nochain", legs |-> << >>]},
        atm \in {0, ChainAtm}}

InitChain ==
    /\ InitIdle
    /\ call \in ChainCalls

CallChain ==
    /\ call.fn = "fetch_option_chain_data"
    /\ Return(fetch_option_chain_data(call.args.res, call.args.atm_strike,
                                      call.args.interval))

SpecChain == InitChain /\ [][CallChain]_vars

\* The legs the provider returned, and the last of them for a strike and a
\* side.
RawLegsGiven == call.args.res.legs
LastLeg(k, t) ==
    CHOOSE i \in DOMAIN RawLegsGiven :
        /\ RawLegsGiven[i].strike_price = k /\ RawLegsGiven[i].option_type = t
        /\ \A j \in DOMAIN RawLegsGiven :
              (RawLegsGiven[j].strike_price = k /\ RawLegsGiven[j].option_type = t)
                  => j <= i
HasRawLeg(k, t) ==
    \E i \in DOMAIN RawLegsGiven :
        RawLegsGiven[i].strike_price = k /\ RawLegsGiven[i].option_type = t

\* C20: whatever legs the provider returns, the chain of
\* fetch_option_chain_data has no strike twice, its records are in strictly
\* ascending order of strike, each is a strike of the legs, and the CE and
\* the PE leg of a strike are in the one record of that strike; when no leg
\* lacks a value, every strike of the legs has its record.
C20_UniqueSortedStrikes ==
    Returned("fetch_option_chain_data") =>
        LET chain == call.result IN
        /\ \A i, j \in DOMAIN chain : i < j => chain[i].strike < chain[j].strike
        /\ \A i \in DOMAIN chain :
              /\ \E t \in {"CE", "PE"} : HasRawLeg(chain[i].strike, t)
              /\ HasRawLeg(chain[i].strike, "CE") =>
                    chain[i].ce_oi = RawLegsGiven[LastLeg(chain[i].strike, "CE")].oi
              /\ HasRawLeg(chain[i].strike, "PE") =>
                    chain[i].pe_oi = RawLegsGiven[LastLeg(chain[i].strike, "PE")].oi
        /\ (\A n \in DOMAIN RawLegsGiven : RawLegsGiven[n].oich # None) =>
              \A n \in DOMAIN RawLegsGiven :
                 \E i \in DOMAIN chain : chain[i].strike = RawLegsGiven[n].strike_price

\* C20 witness: three legs given in descending order of strike, of which the
\* call and the put of 24850 come first, give two records, 24800 before
\* 24850, the second holding both legs.
C20_Witness ==
    /\ Returned("fetch_option_chain_data")
    /\ Len(RawLegsGiven) = 3
    /\ RawLegsGiven[1].strike_price = 24850 /\ RawLegsGiven[1].option_type = "CE"
    /\ RawLegsGiven[2].strike_price = 24850 /\ RawLegsGiven[2].option_type = "PE"
    /\ RawLegsGiven[3].strike_price = 24800
    /\ RawLegsGiven[1].oi = 200 /\ RawLegsGiven[2].oi = 100
    /\ Len(call.result) = 2
    /\ call.result[1].strike = 24800
    /\ call.result[2].strike = 24850
    /\ call.result[2].ce_oi = 200 /\ call.result[2].pe_oi = 100

\* ------------------------------------------------- the trend of a single leg
\* Answers of one leg: at the ATM strike, on and just past the edge of the
\* window of 20 intervals on either side, with every pair of changes up to
\* MaxChange; the ATM strike and the interval given, zero, or left unset.
TrendLegs ==
    {Leg(ChainAtm + d, t, 120, 100, ltpch, oich) :
        d \in {-1001, -1000, 0, 1000, 1001}, t \in {"CE", "PE"},
        ltpch \in -MaxChange..MaxChange, oich \in -MaxChange..MaxChange}

InitTrend ==
    /\ InitIdle
    /\ call \in {Calling("fetch_option_chain_data",
                         [res |-> [kind |-> "chain", legs |-> <<l>>],
                          atm_strike |-> atm, interval |-> iv]) :
                    l \in TrendLegs, atm \in {None, 0, ChainAtm},
                    iv \in {None, 0, ChainInterval}}

SpecTrend == InitTrend /\ [][CallChain]_vars

\* The one leg given, and the trend the specification gives it.
TrendLeg == call.args.res.legs[1]
TrendClassified ==
    /\ call.args.atm_strike = ChainAtm
    /\ call.args.interval = 50
    /\ TrendLeg.strike_price - 24800 <= 1000
    /\ 24800 - TrendLeg.strike_price <= 1000
TrendExpected ==
    LET p == TrendLeg.ltpch
        o == TrendLeg.oich
    IN  IF ~TrendClassified THEN "Neutral"
        ELSE CASE p > 0 /\ o > 0 -> "Long Buildup"
               [] p < 0 /\ o > 0 -> "Short Buildup"
               [] p > 0 /\ o < 0 -> "Short Covering"
               [] p < 0 /\ o < 0 -> "Long Unwinding"
               [] OTHER -> "Neutral"

\* C21: every leg gets a trend: within 20 intervals of the ATM strike it is
\* Long Buildup, Short Buildup, Short Covering or Long Unwinding for the
\* signs (+,+), (-,+), (+,-), (-,-) of price change and OI change and Neutral
\* when either is zero; outside that window, or without an ATM strike or an
\* interval, it is Neutral whatever the changes.
C21_TrendIsTotal ==
    (Returned("fetch_option_chain_data") /\ Len(call.args.res.legs) = 1) =>
        /\ Len(call.result) = 1
        /\ call.result[1].strike = TrendLeg.strike_price
        /\ IF TrendLeg.option_type = "CE"
           THEN call.result[1].ce_trend = TrendExpected
           ELSE call.result[1].pe_trend = TrendExpected

\* C21 witness: a put on the edge of the window, 1000 points above ATM, with
\* a falling price and rising OI is a Short Buildup.
C21_Witness ==
    /\ Returned("fetch_option_chain_data")
    /\ Len(call.args.res.legs) = 1
    /\ TrendLeg.strike_price = 25800 /\ TrendLeg.option_type = "PE"
    /\ TrendLeg.ltpch < 0 /\ TrendLeg.oich > 0
    /\ call.args.atm_strike = 24800 /\ call.args.interval = 50
    /\ call.result[1].pe_trend = "Short Buildup"

====
